---- MODULE Spec2Model ----
(***************************************************************************)
(* A model of the content-analysis pipeline of srt2slide (src/utils.py):   *)
(* split_text, the concurrent chunk analyses (analyze_content_part under   *)
(* asyncio.gather), the merge of the chunk results by section name, the    *)
(* partition into at most 8 files, and adjust_yaml_size_async with its     *)
(* LLM calls (summarize_with_openai_async).                                *)
(*                                                                         *)
(* Strings are modelled by their shape, not their characters:              *)
(*   - a text is a non-empty sequence of lines, a line being               *)
(*     [ind |-> leading blanks, len |-> characters after strip()];         *)
(*     the empty string is the single empty line;                          *)
(*   - a list of strings (slide content) is the sequence of the items'     *)
(*     lengths;                                                            *)
(*   - a title carries where it comes from (the LLM's slide, the          *)
(*     str() of a slide dict, a resummarized item, ...).                   *)
(* The LLM is the environment: every response is drawn from a small set.   *)
(***************************************************************************)
EXTENDS Integers, Sequences, FiniteSets, TLC

----------------------------------------------------------------------------
(* Bounds of the model *)

\* paragraphs of the transcript given to the pipeline (so at most that many chunks)
MaxParagraphs == 2
\* sections of the merged document given to the partition step
MaxSections == 18
\* section occurrences in the chunk results given to the merge step
MaxOccurrences == 3
\* the longest text, in characters, and the largest num_parts, where
\* split_text is checked character by character
MaxTextLen == 7
MaxNumParts == 3

----------------------------------------------------------------------------
(* Program constants *)

\* split_text(text, num_parts=8) and "for i in range(8)"
NumParts == 8
\* if current_size < 8000
ExpandBelow == 8000
\* max_chars: int = 10000
MaxChars == 10000
\* if len(slides) > 10  /  slides[:10]
MaxSlidesPerSection == 10
\* if len(slide["content"]) > 5  /  [:5]
MaxContentItems == 5
\* max_tokens of the summarize calls
TokExpandContent == 300
TokExpandPoints == 200
TokCompressList == 150
TokCompressLimit == 200
TokCompressStr == 100
TokCompressPoints == 200
TokResummarize == 1000
\* "..." appended by truncate_content
EllipsisLen == 3

----------------------------------------------------------------------------
(* Texts *)

Ln(i, l) == [ind |-> i, len |-> l]

EmptyText == << Ln(0, 0) >>

RECURSIVE SumRaw(_)
SumRaw(text) ==
  IF text = << >> THEN 0
  ELSE Head(text).ind + Head(text).len + SumRaw(Tail(text))

\* len(s): the characters of all lines and the newlines between them
RawLen(text) == SumRaw(text) + Len(text) - 1

\* s[:k] for 0 <= k < len(s); the line the cut falls in is kept, cut
RECURSIVE Prefix(_, _)
Prefix(text, k) ==
  LET l == Head(text) IN
  IF k <= l.ind THEN << Ln(k, 0) >>
  ELSE IF k <= l.ind + l.len \/ Len(text) = 1 THEN << Ln(l.ind, k - l.ind) >>
  ELSE << l >> \o Prefix(Tail(text), k - (l.ind + l.len) - 1)

\* s + "..."
AddEllipsis(text) ==
  LET n == Len(text) IN
  [text EXCEPT ![n] = Ln(text[n].ind, text[n].len + EllipsisLen)]

truncate_content(content, max_length) ==
  IF RawLen(content) <= max_length THEN content
  ELSE AddEllipsis(Prefix(content, max_length - EllipsisLen))

\* [point.strip() for point in s.split("\n") if point.strip()]
RECURSIVE SplitStrip(_)
SplitStrip(text) ==
  IF text = << >> THEN << >>
  ELSE IF Head(text).len > 0 THEN << Head(text).len >> \o SplitStrip(Tail(text))
  ELSE SplitStrip(Tail(text))

\* "\n".join(items) for a list of strings without blanks around them
JoinLines(items) ==
  IF items = << >> THEN EmptyText
  ELSE [i \in 1..Len(items) |-> Ln(0, items[i])]

\* f"""<head lines>
\*     {text}
\*     """: the text starts after the indent of its line, and a line of
\* blanks follows it
Embed(head, text, indent) ==
  head \o << Ln(indent + text[1].ind, text[1].len) >> \o Tail(text)
       \o << Ln(indent, 0) >>

\* the lines before {content_text} in expansion_prompt
ExpansionHead ==
  << Ln(0, 0), Ln(20, 20), Ln(20, 14), Ln(20, 14), Ln(20, 12), Ln(20, 0),
     Ln(20, 5) >>

\* the lines before {points_text} in points_prompt
PointsHead ==
  << Ln(0, 0), Ln(20, 24), Ln(20, 13), Ln(20, 17), Ln(20, 15), Ln(20, 0),
     Ln(20, 7) >>

\* f"...5つの重要なポイントにまとめてください：\n{combined_points}"
LimitPrompt(text) == << Ln(0, 26) >> \o text

----------------------------------------------------------------------------
(* Documents *)

\* a missing or empty section name, a missing lecture_name
NoName == 0

\* len(str(k)) of a slide or section number
DigitsLen(k) == IF k < 10 THEN 1 ELSE IF k < 100 THEN 2 ELSE 3

\* names are identified by a number; every name is written with 5
\* characters, every lecture name with 12
NameLen(n) == IF n = NoName THEN 0 ELSE 5
LectureLen(n) == IF n = NoName THEN 4 ELSE 12

\* a title: where the string comes from (k, id) and its length
Title(k, id, l) == [k |-> k, id |-> id, len |-> l]

\* len of a content value: a list of strings, one string, or a list holding
\* something that is no string (which "\n".join rejects)
ContentScalars(c) ==
  CASE c.k = "list" -> c.v
    [] c.k = "str"  -> << RawLen(c.v) >>
    [] OTHER        -> << >>

RECURSIVE SumSeq(_)
SumSeq(s) == IF s = << >> THEN 0 ELSE Head(s) + SumSeq(Tail(s))

\* the characters yaml.dump writes for a list of scalars under a key of a
\* slide: "    - " and a newline around each item, " []" when empty
DumpItems(items) ==
  IF items = << >> THEN 3 ELSE SumSeq(items) + 7 * Len(items)

\* len(str(slide)) of a slide dict: the braces, the four quoted keys and
\* the values
ReprLen(slide) ==
  60 + slide.title.len + SumSeq(ContentScalars(slide.content))
     + SumSeq(ContentScalars(slide.teaching_points))

\* the characters of one slide in yaml.dump(doc, allow_unicode=True):
\*   "  - content:", "    number: 'k'", "    teaching_points: ...",
\*   "    title: ..."
DumpSlide(slide) ==
  (IF slide.content.k = "str"
     THEN 14 + RawLen(slide.content.v)
     ELSE 13 + DumpItems(ContentScalars(slide.content)))
  + 15 + DigitsLen(slide.number)
  + (IF slide.teaching_points.k = "str"
       THEN 22 + RawLen(slide.teaching_points.v)
       ELSE 21 + DumpItems(slide.teaching_points.v))
  + 12 + slide.title.len

RECURSIVE DumpSlides(_)
DumpSlides(slides) ==
  IF slides = << >> THEN 0
  ELSE DumpSlide(Head(slides)) + DumpSlides(Tail(slides))

\* "- name: ...", "  number: 'k'", "  slides:" and the slides
DumpSection(section) ==
  9 + NameLen(section.name) + 13 + DigitsLen(section.number)
    + (IF section.slides = << >> THEN 13 ELSE 10 + DumpSlides(section.slides))

RECURSIVE DumpSections(_)
DumpSections(sections) ==
  IF sections = << >> THEN 0
  ELSE DumpSection(Head(sections)) + DumpSections(Tail(sections))

\* len(yaml.dump(yaml_data, allow_unicode=True))
DumpLen(doc) ==
  15 + LectureLen(doc.lecture_name) + 10 + DumpSections(doc.sections)

----------------------------------------------------------------------------
(* split_text *)

\* a paragraph of text.split('\n\n') is a number: 0 when p.strip() is empty
IsBlank(p) == p = 0

RECURSIVE NonBlank(_)
NonBlank(ps) ==
  IF ps = << >> THEN << >>
  ELSE IF IsBlank(Head(ps)) THEN NonBlank(Tail(ps))
  ELSE << Head(ps) >> \o NonBlank(Tail(ps))

\* math.ceil(a / b) for b > 0
CeilDiv(a, b) == (a + b - 1) \div b

\* faulty variant: the slice ends one element early
SliceShort(s, a, b) ==
  LET hi == IF b - 1 < Len(s) THEN b - 1 ELSE Len(s) IN
  IF a >= hi THEN << >> ELSE [i \in 1..(hi - a) |-> s[a + i]]

\* s[a:b] of Python for 0 <= a, 0 <= b
Slice(s, a, b) ==
  LET hi == IF b < Len(s) THEN b ELSE Len(s) IN
  IF a >= hi THEN << >> ELSE [i \in 1..(hi - a) |-> s[a + i]]

\* split_text(text, num_parts): a chunk is the sequence of the paragraphs
\* joined in it
split_text(text, num_parts) ==
  LET paragraphs == NonBlank(text)
      n == Len(paragraphs)
      paragraphs_per_part == CeilDiv(n, num_parts)
  IN  IF n <= num_parts
        THEN [i \in 1..n |-> << paragraphs[i] >>]
        ELSE [j \in 1..CeilDiv(n, paragraphs_per_part) |->
                Slice(paragraphs, (j - 1) * paragraphs_per_part,
                      j * paragraphs_per_part)]

\* split_text on the characters of the text.  A string is a sequence of
\* characters: "a" (a letter), "n" (a newline), "s" (a space).
Chars == {"a", "n", "s"}

\* text.split('\n\n'): cut at the leftmost blank line, then go on behind it
RECURSIVE SplitBlankLines(_)
SplitBlankLines(str) ==
  LET hits == { i \in 1..(Len(str) - 1) : str[i] = "n" /\ str[i + 1] = "n" }
  IN  IF hits = {} THEN << str >>
      ELSE LET i == CHOOSE h \in hits : \A g \in hits : h <= g
           IN  << SubSeq(str, 1, i - 1) >>
                 \o SplitBlankLines(SubSeq(str, i + 2, Len(str)))

\* '\n\n'.join(parts)
RECURSIVE JoinBlankLines(_)
JoinBlankLines(parts) ==
  IF parts = << >> THEN << >>
  ELSE IF Len(parts) = 1 THEN parts[1]
  ELSE parts[1] \o << "n", "n" >> \o JoinBlankLines(Tail(parts))

\* "not p.strip()": only whitespace
StripsToEmpty(str) == \A i \in 1..Len(str) : str[i] \in {"n", "s"}

\* the pieces of text.split('\n\n') as split_text sees them: piece i is
\* named i, a piece that strips to nothing is blank
MarkPieces(pieces) ==
  [i \in 1..Len(pieces) |-> IF StripsToEmpty(pieces[i]) THEN 0 ELSE i]

\* split_text(text, num_parts) on a string: the parts are strings
split_text_str(str, parts) ==
  LET pieces == SplitBlankLines(str)
      groups == split_text(MarkPieces(pieces), parts)
  IN  [j \in 1..Len(groups) |->
         JoinBlankLines([k \in 1..Len(groups[j]) |-> pieces[groups[j][k]]])]

----------------------------------------------------------------------------
(* The merge of the chunk results (analyze_content, after the first gather) *)

\* slide_data of the slide at position slide_num of one occurrence of a
\* section: "for slide_num, slide in enumerate(section.get("slides", []), 1)"
MergeSlide(slide, slide_num) ==
  [number          |-> slide_num,
   title           |-> slide.title,
   content         |-> slide.content,
   teaching_points |-> [k |-> "str", v |-> JoinLines(slide.teaching_points)]]

\* whether the loop skips the section ("if not section_name: continue")
SkipSection(section_name) == section_name = NoName

\* faulty variant: a later occurrence of a name replaces the slides of the
\* earlier ones
MergeSectionOverwrite(m, section) ==
  IF section.name = NoName THEN m
  ELSE
    LET isNew == \A i \in 1..Len(m.order) : m.order[i] # section.name
        add   == [j \in 1..Len(section.slides) |->
                    MergeSlide(section.slides[j], j)]
    IN  [order |-> IF isNew THEN Append(m.order, section.name) ELSE m.order,
         dict  |-> [n \in DOMAIN m.dict \cup {section.name} |->
                      IF n = section.name THEN add ELSE m.dict[n]]]

\* the body of "for section in sections": m is [order, dict]
MergeSection(m, section) ==
  IF SkipSection(section.name) THEN m
  ELSE
    LET isNew == \A i \in 1..Len(m.order) : m.order[i] # section.name
        order == IF isNew THEN Append(m.order, section.name) ELSE m.order
        old   == IF isNew THEN << >> ELSE m.dict[section.name]
        add   == [j \in 1..Len(section.slides) |->
                    MergeSlide(section.slides[j], j)]
    IN  [order |-> order,
         dict  |-> [n \in DOMAIN m.dict \cup {section.name} |->
                      IF n = section.name THEN old \o add ELSE m.dict[n]]]

RECURSIVE MergeSections(_, _)
MergeSections(m, sections) ==
  IF sections = << >> THEN m
  ELSE MergeSections(MergeSection(m, Head(sections)), Tail(sections))

\* "for part_num, part in enumerate(yaml_parts, 1)"
RECURSIVE MergeParts(_, _)
MergeParts(m, parts) ==
  IF parts = << >> THEN m
  ELSE MergeParts(MergeSections(m, Head(parts).sections), Tail(parts))

EmptyMerge == [order |-> << >>, dict |-> << >>]

----------------------------------------------------------------------------
(* The partition into files (process_all_files, before the gather) *)

\* sections_per_file = max(1, len(section_order) // 8)
SectionsPerFile(n) == IF n \div NumParts >= 1 THEN n \div NumParts ELSE 1

\* faulty variant: a file ends one section late
EndIdxOverlap(i, n) ==
  IF i < 7 THEN (i + 1) * SectionsPerFile(n) + 1 ELSE n

\* faulty variant: the last file ends like the others
EndIdxNoRemainder(i, n) == (i + 1) * SectionsPerFile(n)

\* end_idx of file i (0-based)
EndIdx(i, n) ==
  IF i < NumParts - 1 THEN (i + 1) * SectionsPerFile(n) ELSE n

\* the section names of file i: section_order[start_idx:end_idx]
FileNames(order, i) ==
  Slice(order, i * SectionsPerFile(Len(order)), EndIdx(i, Len(order)))

\* file_sections of file i
FileSections(order, dict, i) ==
  LET names == FileNames(order, i) IN
  [k \in 1..Len(names) |->
     [number |-> k, name |-> names[k], slides |-> dict[names[k]]]]

\* the yaml_file documents in creation order: "if file_sections:"
RECURSIVE YamlFiles(_, _, _, _)
YamlFiles(order, dict, lecture, i) ==
  IF i >= NumParts THEN << >>
  ELSE
    LET file_sections == FileSections(order, dict, i)
        rest == YamlFiles(order, dict, lecture, i + 1)
    IN  IF file_sections = << >> THEN rest
        ELSE << [lecture_name |-> lecture, sections |-> file_sections] >>
               \o rest

----------------------------------------------------------------------------
(* The LLM calls of adjust_yaml_size_async *)

\* How the LLM answers the per-slide calls of one adjust task:
\*   "fail"   the call raises (transport error, or no content in the reply)
\*   "short"  one line
\*   "lines7" seven lines
\*   "empty"  an empty reply
SummarizeModes == {"fail", "short", "lines7", "empty"}

\* response.choices[0].message.content.strip() of a call that succeeds
ReplyText(mode) ==
  CASE mode = "short"  -> << Ln(0, 40) >>
    [] mode = "lines7" -> [i \in 1..7 |-> Ln(0, 80)]
    [] OTHER           -> EmptyText

\* what the except clause of summarize_with_openai_async returns
SummarizeFallback(content, max_tokens) == truncate_content(content, max_tokens)

\* faulty variant: a failed call is re-raised
SummarizeRaisesOnFail(mode) == mode = "fail"

\* whether a failed call leaves summarize_with_openai_async as an
\* exception: "except Exception as e:" returns and never re-raises
SummarizeRaises(mode) == FALSE

\* summarize_with_openai_async(client, content, max_tokens)
summarize_with_openai_async(content, max_tokens, mode) ==
  IF mode = "fail" THEN SummarizeFallback(content, max_tokens)
  ELSE ReplyText(mode)

\* str(x) of a content or teaching_points value, as a text
\* (the str() of a list is one line: brackets, quotes and commas)
StrOf(c) ==
  CASE c.k = "str"  -> c.v
    [] c.k = "list" -> << Ln(0, 2 + SumSeq(c.v) + 4 * Len(c.v)) >>
    [] OTHER        -> << Ln(0, 2) >>

\* the argument of the call for field f of a slide, and its max_tokens
CallPrompt(branch, f, slide) ==
  CASE branch = "expand" /\ f = "content" ->
         Embed(ExpansionHead, JoinLines(slide.content.v), 20)
    [] branch = "expand" /\ f = "teaching_points" ->
         Embed(PointsHead,
               IF slide.teaching_points.k = "str"
                 THEN slide.teaching_points.v
                 ELSE JoinLines(slide.teaching_points.v), 20)
    [] branch = "compress" /\ f = "content" ->
         IF slide.content.k = "list" THEN JoinLines(slide.content.v)
         ELSE StrOf(slide.content)
    [] branch = "compress" /\ f = "content_limit" ->
         LimitPrompt(JoinLines(slide.content.v))
    [] OTHER -> StrOf(slide.teaching_points)

CallTokens(branch, f, slide) ==
  CASE branch = "expand" /\ f = "content" -> TokExpandContent
    [] branch = "expand" /\ f = "teaching_points" -> TokExpandPoints
    [] branch = "compress" /\ f = "content" ->
         IF slide.content.k = "list" THEN TokCompressList ELSE TokCompressStr
    [] branch = "compress" /\ f = "content_limit" -> TokCompressLimit
    [] OTHER -> TokCompressPoints

\* the calls one slide makes, in order; "raise" where "\n".join meets an
\* item that is no string
SlideCalls(branch, s, j, slide) ==
  LET c(f) == << [f |-> f, s |-> s, j |-> j] >> IN
  IF slide.content.k = "bad" THEN c("raise")
  ELSE IF branch = "expand"
    THEN (IF slide.content.k = "list" THEN c("content") ELSE << >>)
           \o c("teaching_points")
    ELSE c("content")
           \o (IF slide.content.k = "list"
                  /\ Len(slide.content.v) > MaxContentItems
                 THEN c("content_limit") ELSE << >>)
           \o c("teaching_points")

RECURSIVE SlidesCalls(_, _, _, _)
SlidesCalls(branch, s, slides, j) ==
  IF j > Len(slides) THEN << >>
  ELSE SlideCalls(branch, s, j, slides[j])
         \o SlidesCalls(branch, s, slides, j + 1)

RECURSIVE SectionsCalls(_, _, _)
SectionsCalls(branch, sections, s) ==
  IF s > Len(sections) THEN << >>
  ELSE SlidesCalls(branch, s, sections[s].slides, 1)
         \o SectionsCalls(branch, sections, s + 1)

\* the calls up to the first raise (nothing runs after it)
RECURSIVE UntilRaise(_)
UntilRaise(calls) ==
  IF calls = << >> THEN << >>
  ELSE IF Head(calls).f = "raise" THEN << Head(calls) >>
  ELSE << Head(calls) >> \o UntilRaise(Tail(calls))

\* the per-slide calls of a document, in the order of the two nested loops
DocCalls(branch, doc) == UntilRaise(SectionsCalls(branch, doc.sections, 1))

SetField(doc, s, j, f, value) ==
  [doc EXCEPT !.sections[s].slides[j][f] = value]

\* s[:n]
Take(s, n) == IF Len(s) <= n THEN s ELSE SubSeq(s, 1, n)

AsList(text) == [k |-> "list", v |-> SplitStrip(text)]
AsStr(text) == [k |-> "str", v |-> text]

\* faulty variant: the list is not cut
LimitedContentUncut(result) == [k |-> "list", v |-> SplitStrip(result)]

\* the content a "content_limit" result leaves: [...][:5]
LimitedContent(result) ==
  [k |-> "list", v |-> Take(SplitStrip(result), MaxContentItems)]

\* the expansion branch stores each reply as it arrives
ApplyExpand(doc, call, result) ==
  SetField(doc, call.s, call.j, call.f, AsList(result))

\* one step of "for task_type, slide, result in tasks", on its slide
ApplyCompress(slide, t) ==
  CASE t.f = "content" ->
         [slide EXCEPT !.content =
            IF slide.content.k = "list" THEN AsList(t.result)
            ELSE AsStr(t.result)]
    [] t.f = "content_limit" ->
         [slide EXCEPT !.content = LimitedContent(t.result)]
    [] OTHER ->
         [slide EXCEPT !.teaching_points = AsStr(t.result)]

RECURSIVE ApplySteps(_, _)
ApplySteps(slide, steps) ==
  IF steps = << >> THEN slide
  ELSE ApplySteps(ApplyCompress(slide, Head(steps)), Tail(steps))

\* "for task_type, slide, result in tasks": every step writes the slide it
\* names and nothing else, so each slide takes its own steps, in the order
\* of the list
ApplyAll(doc, tasks) ==
  [doc EXCEPT !.sections =
     [s \in 1..Len(doc.sections) |->
        [doc.sections[s] EXCEPT !.slides =
           [j \in 1..Len(doc.sections[s].slides) |->
              ApplySteps(doc.sections[s].slides[j],
                         SelectSeq(tasks, LAMBDA t : t.s = s /\ t.j = j))]]]]

----------------------------------------------------------------------------
(* Section-level resummarization (adjust_yaml_size_async, final_size > max) *)

\* What yaml.safe_load(summarized_slides) gives, by shape.  An item of
\* slides_data is "dict" (with title, content and teaching_points),
\* "bare" (a dict without these keys), "str" or "other".
\*   slides : a dict with a "slides" key holding n items
\*   dict   : a dict without a "slides" key
\*   list   : a list of n items
\*   scalar : a plain string, a number or None
\*   error  : safe_load raises, or "slides" holds nothing iterable
\* With failed = TRUE the call itself failed and summarized_slides is the
\* prompt cut to 1000 characters, whose "スライド k: title" lines are a
\* mapping inside a plain scalar: safe_load raises.
ResumOutcomes ==
  { [failed |-> FALSE, shape |-> "slides", n |-> 10, item |-> "dict"],
    [failed |-> FALSE, shape |-> "slides", n |-> 12, item |-> "str"],
    [failed |-> FALSE, shape |-> "list",   n |-> 3,  item |-> "bare"],
    [failed |-> FALSE, shape |-> "list",   n |-> 0,  item |-> "other"],
    [failed |-> FALSE, shape |-> "list",   n |-> 11, item |-> "other"],
    [failed |-> FALSE, shape |-> "dict",   n |-> 1,  item |-> "dict"],
    [failed |-> FALSE, shape |-> "scalar", n |-> 1,  item |-> "str"],
    [failed |-> FALSE, shape |-> "error",  n |-> 0,  item |-> "other"],
    [failed |-> TRUE,  shape |-> "error",  n |-> 0,  item |-> "other"] }

NoContent == [k |-> "list", v |-> << >>]
NoPoints == [k |-> "str", v |-> EmptyText]

\* create_slide_dict(slide_data, index), index counted from 0
create_slide_dict(item, index) ==
  CASE item = "dict" ->
         [number |-> index + 1, title |-> Title("sum", index + 1, 20),
          content |-> [k |-> "list", v |-> << 30, 30 >>],
          teaching_points |-> [k |-> "str", v |-> << Ln(0, 50) >>]]
    [] item = "bare" ->
         [number |-> index + 1, title |-> Title("none", 0, 0),
          content |-> NoContent, teaching_points |-> NoPoints]
    [] item = "str" ->
         [number |-> index + 1, title |-> Title("sum", index + 1, 20),
          content |-> NoContent, teaching_points |-> NoPoints]
    [] OTHER ->
         [number |-> index + 1,
          title |-> Title("default", index + 1, 5 + DigitsLen(index + 1)),
          content |-> NoContent, teaching_points |-> NoPoints]

\* slides_data of a reply that parses
SlidesData(outcome) ==
  CASE outcome.shape = "dict"   -> << "dict" >>
    [] outcome.shape = "scalar" -> << "str" >>
    [] OTHER -> [i \in 1..outcome.n |-> outcome.item]

\* the title the except clause gives placeholder i: "title": str(slide)
PlaceholderTitle(slide) == Title("repr", slide.title.id, ReprLen(slide))

\* the except clause: placeholders for slides[:10]
FallbackSlides(slides) ==
  LET first == Take(slides, MaxSlidesPerSection) IN
  [i \in 1..Len(first) |->
     [number |-> i, title |-> PlaceholderTitle(first[i]),
      content |-> NoContent, teaching_points |-> NoPoints]]

\* section["slides"] after the reply was handled
ResumSlides(outcome, slides) ==
  IF outcome.shape = "error" THEN FallbackSlides(slides)
  ELSE LET slides_data == SlidesData(outcome) IN
       [i \in 1..Len(slides_data) |-> create_slide_dict(slides_data[i], i - 1)]

\* the sections the second pass resummarizes: "if len(slides) > 10"
NeedsResum(section) == Len(section.slides) > MaxSlidesPerSection

RECURSIVE ResumSections(_, _)
ResumSections(sections, s) ==
  IF s > Len(sections) THEN << >>
  ELSE (IF NeedsResum(sections[s]) THEN << s >> ELSE << >>)
         \o ResumSections(sections, s + 1)

----------------------------------------------------------------------------
(* One adjust_yaml_size_async task: where it is suspended *)

\*  st     : "new" (not started), "calls" (awaiting per-slide call k),
\*           "resum" (awaiting the resummarization of section rs[k]),
\*           "done" (returned doc), "raised" (ended with an exception)
\*  branch : "expand", "keep" or "compress", from current_size
\*  doc    : adjusted_data (its sections are those of yaml_data)
\*  input  : yaml_data as it was passed in
\*  acc    : the tasks list of the compression pass
\*  failed_call : whether an LLM call of the task failed
NewTask(doc) ==
  [st |-> "new", branch |-> "none", doc |-> doc, input |-> doc,
   calls |-> << >>, rs |-> << >>, k |-> 0, acc |-> << >>, mode |-> "none",
   failed_call |-> FALSE, resummed |-> {}]

\* faulty variant: a document of exactly max_chars is compressed
BranchOfStrictMax(size) ==
  IF size < ExpandBelow THEN "expand"
  ELSE IF size < MaxChars THEN "keep"
  ELSE "compress"

\* faulty variant: the compression branch is never taken
BranchOfNoCompress(size) ==
  IF size < ExpandBelow THEN "expand" ELSE "keep"

BranchOf(size) ==
  IF size < ExpandBelow THEN "expand"
  ELSE IF size <= MaxChars THEN "keep"
  ELSE "compress"

\* whether the second pass runs: "if final_size > max_chars"
StillTooBig(doc) == DumpLen(doc) > MaxChars

\* The task runs on from the return of call k - 1 to its next await, its
\* return or its exception.
Advance(t) ==
  IF t.k <= Len(t.calls)
    THEN IF t.calls[t.k].f = "raise" THEN [t EXCEPT !.st = "raised"] ELSE t
  ELSE IF t.branch = "expand" THEN [t EXCEPT !.st = "done"]
  ELSE
    LET applied == ApplyAll(t.doc, t.acc)
        rs == IF StillTooBig(applied)
                THEN ResumSections(applied.sections, 1) ELSE << >>
    IN  IF rs = << >>
          THEN [t EXCEPT !.st = "done", !.doc = applied]
          ELSE [t EXCEPT !.st = "resum", !.doc = applied, !.rs = rs, !.k = 1]

\* from the call of the coroutine to its first await
StartTask(t, mode) ==
  LET branch == BranchOf(DumpLen(t.doc)) IN
  IF branch = "keep" THEN [t EXCEPT !.st = "done", !.branch = branch]
  ELSE Advance([t EXCEPT !.st = "calls", !.branch = branch,
                         !.calls = DocCalls(branch, t.doc), !.k = 1,
                         !.mode = mode])

\* whether the task will await a per-slide call
HasCalls(doc) ==
  LET branch == BranchOf(DumpLen(doc))
      calls == IF branch = "keep" THEN << >> ELSE DocCalls(branch, doc)
  IN  calls # << >> /\ calls[1].f # "raise"

\* the per-slide call k returns (or fails and is answered by the fallback)
ReturnCall(t) ==
  LET call == t.calls[t.k]
      slide == t.doc.sections[call.s].slides[call.j]
      result == summarize_with_openai_async(
                  CallPrompt(t.branch, call.f, slide),
                  CallTokens(t.branch, call.f, slide), t.mode)
      failed == t.failed_call \/ t.mode = "fail"
  IN  IF SummarizeRaises(t.mode) THEN [t EXCEPT !.st = "raised"]
      ELSE IF t.branch = "expand"
        THEN Advance([t EXCEPT !.doc = ApplyExpand(t.doc, call, result),
                               !.k = t.k + 1, !.failed_call = failed])
        ELSE Advance([t EXCEPT !.acc = Append(t.acc,
                                 [f |-> call.f, s |-> call.s, j |-> call.j,
                                  result |-> result]),
                               !.k = t.k + 1, !.failed_call = failed])

\* the resummarization call of section rs[k] returns
ReturnResum(t, outcome) ==
  LET s == t.rs[t.k]
      doc == [t.doc EXCEPT !.sections[s].slides =
                ResumSlides(outcome, t.doc.sections[s].slides)]
      last == t.k = Len(t.rs)
  IN  IF outcome.failed /\ SummarizeRaises("fail")
        THEN [t EXCEPT !.st = "raised"]
      ELSE
      [t EXCEPT !.doc = doc, !.k = t.k + 1,
                !.st = IF last THEN "done" ELSE "resum",
                !.failed_call = t.failed_call \/ outcome.failed,
                !.resummed = t.resummed \cup
                  {[s |-> s, outcome |-> outcome,
                    before |-> t.doc.sections[s].slides]}]

----------------------------------------------------------------------------
(* The replies of the LLM to analyze_content_part *)

\* the slides the LLM writes, by kind: content and teaching_points
\* ("under_min", "at_min", "at_max", "over_max": one slide of the kind makes
\* a document of 7999, 8000, 10000, 10001 characters)
SlideKinds ==
  {"small", "six", "big", "wide", "mid", "huge", "bad",
   "under_min", "at_min", "at_max", "over_max"}

KindContent(kind) ==
  CASE kind = "small" -> [k |-> "list", v |-> << 40, 40 >>]
    [] kind = "six"   -> [k |-> "list", v |-> [i \in 1..6 |-> 40]]
    [] kind = "big"   -> [k |-> "list", v |-> [i \in 1..6 |-> 300]]
    [] kind = "wide"  -> [k |-> "list", v |-> << 500, 500 >>]
    [] kind = "mid"   -> [k |-> "list", v |-> [i \in 1..3 |-> 2900]]
    [] kind = "huge"  -> [k |-> "str", v |-> << Ln(0, 12000) >>]
    [] kind = "under_min" -> [k |-> "str", v |-> << Ln(0, 7788) >>]
    [] kind = "at_min"    -> [k |-> "str", v |-> << Ln(0, 7789) >>]
    [] kind = "at_max"    -> [k |-> "str", v |-> << Ln(0, 9789) >>]
    [] kind = "over_max"  -> [k |-> "str", v |-> << Ln(0, 9790) >>]
    [] OTHER          -> [k |-> "bad"]

KindPoints(kind) == IF kind = "big" THEN << 500 >> ELSE << 60 >>

\* slide j of section s in the reply to chunk c; the title names the place
LlmSlide(c, s, j, kind) ==
  [title |-> Title("llm", 100 * c + 10 * s + j, 12),
   content |-> KindContent(kind), teaching_points |-> KindPoints(kind)]

\* a shape is [lecture, sections], a section of it [name, n, kind]
Sec(name, n, kind) == [name |-> name, n |-> n, kind |-> kind]

LlmDoc(c, shape) ==
  [lecture_name |-> shape.lecture,
   sections |-> [s \in 1..Len(shape.sections) |->
      [name |-> shape.sections[s].name,
       slides |-> [j \in 1..shape.sections[s].n |->
                     LlmSlide(c, s, j, shape.sections[s].kind)]]]]

\* the shapes of the replies in the pipeline specification
PipelineShapes ==
  { [lecture |-> 1, sections |-> << Sec(1, 1, "small") >>],
    [lecture |-> 1, sections |-> << Sec(1, 1, "small"), Sec(2, 1, "mid") >>],
    [lecture |-> NoName, sections |-> << Sec(1, 1, "small") >>],
    [lecture |-> 1, sections |-> << Sec(NoName, 1, "small"), Sec(2, 1, "bad") >>],
    [lecture |-> 1, sections |-> << Sec(2, 11, "wide") >>] }

\* what analyze_content_part(client, part, i, total) ends with: yaml_data,
\* or the exception it re-raises
ChunkOutcomes(i, chunk) ==
  { [st |-> "ok", src |-> chunk, doc |-> LlmDoc(i, shape)] :
      shape \in PipelineShapes }
  \cup { [st |-> "error", src |-> chunk, kind |-> e] :
           e \in {"TransportError", "ParseError"} }

----------------------------------------------------------------------------
(* State *)

VARIABLES
  text,           \* the text to split
  num_parts,      \* the number of parts asked for
  pc,             \* where analyze_content is
  text_parts,     \* split_text(text, num_parts=8)
  results,        \* what the first gather collects, by task
  finished,       \* the chunk analyses in the order they ended
  lecture_name,
  section_order,
  sections_dict,
  tasks,          \* the adjust_yaml_size_async tasks of the second gather
  final_yaml,     \* the value analyze_content returns
  error           \* the exception analyze_content ends with

vars == << text, num_parts, pc, text_parts, results, finished, lecture_name, section_order,
           sections_dict, tasks, final_yaml, error >>

Pending == [st |-> "pending"]
NoError == [stage |-> "none", count |-> 0]

\* the texts of the pipeline specification: paragraph i is blank (0) or
\* the paragraph named i
PipelineTexts ==
  UNION { { t \in [1..n -> 0..n] : \A i \in 1..n : t[i] \in {0, i} } :
          n \in 0..MaxParagraphs }

Init ==
  /\ text \in PipelineTexts
  /\ num_parts = NumParts
  /\ text_parts = split_text(text, num_parts)
  /\ pc = "gather_parts"
  /\ results = [i \in 1..Len(text_parts) |-> Pending]
  /\ finished = << >>
  /\ lecture_name = NoName
  /\ section_order = << >>
  /\ sections_dict = << >>
  /\ tasks = << >>
  /\ final_yaml = << >>
  /\ error = NoError

----------------------------------------------------------------------------
(* The first gather: process_all_parts *)

\* faulty variant: the results are kept in the order the tasks end
GatherStoreByCompletion(res, done, i, outcome) ==
  [res EXCEPT ![Len(done) + 1] = outcome]

\* asyncio.gather keeps the result of task i at position i
GatherStore(res, done, i, outcome) == [res EXCEPT ![i] = outcome]

\* analyze_content_part of chunk i ends
AnalyzeDone(i) ==
  /\ pc = "gather_parts"
  /\ results[i] = Pending
  /\ \E outcome \in ChunkOutcomes(i, text_parts[i]) :
       results' = GatherStore(results, finished, i, outcome)
  /\ finished' = Append(finished, i)
  /\ UNCHANGED << text, num_parts, pc, text_parts, lecture_name,
                  section_order, sections_dict, tasks, final_yaml, error >>

\* faulty variant: only the first result is looked at
ErrorsFirstOnly(res) == { i \in 1..Len(res) : i = 1 /\ res[i].st = "error" }

\* errors = [r for r in results if isinstance(r, Exception)]
Errors(res) == { i \in 1..Len(res) : res[i].st = "error" }

\* faulty variant: gather returns at the first exception
AllEndedOrOneFailed(res) ==
  \/ \E i \in 1..Len(res) : res[i] # Pending /\ res[i].st = "error"
  \/ \A i \in 1..Len(res) : res[i] # Pending

AllEnded(res) == \A i \in 1..Len(res) : res[i] # Pending

\* gather returns once every task has ended; the error check
PartsJoin ==
  /\ pc = "gather_parts"
  /\ AllEnded(results)
  /\ IF Errors(results) # {}
       THEN /\ pc' = "failed"
            /\ error' = [stage |-> "parts",
                         count |-> Cardinality(Errors(results))]
       ELSE /\ pc' = "merge"
            /\ error' = error
  /\ UNCHANGED << text, num_parts, text_parts, results, finished, lecture_name,
                  section_order, sections_dict, tasks, final_yaml >>

----------------------------------------------------------------------------
(* The merge *)

Merge ==
  /\ pc = "merge"
  /\ IF results = << >>
       THEN /\ pc' = "failed"
            /\ error' = [stage |-> "no_parts", count |-> 0]
            /\ UNCHANGED << lecture_name, section_order, sections_dict >>
     ELSE IF results[1].doc.lecture_name = NoName
       THEN /\ pc' = "failed"
            /\ error' = [stage |-> "lecture_name", count |-> 0]
            /\ UNCHANGED << lecture_name, section_order, sections_dict >>
     ELSE LET m == MergeParts(EmptyMerge,
                              [i \in 1..Len(results) |-> results[i].doc])
          IN  /\ lecture_name' = results[1].doc.lecture_name
              /\ section_order' = m.order
              /\ sections_dict' = m.dict
              /\ pc' = "partition"
              /\ error' = error
  /\ finished' = << >>
  /\ UNCHANGED << text, num_parts, text_parts, results, tasks, final_yaml >>

----------------------------------------------------------------------------
(* The partition and the second gather: process_all_files *)

Partition ==
  /\ pc = "partition"
  /\ LET files == YamlFiles(section_order, sections_dict, lecture_name, 0)
     IN  tasks' = [i \in 1..Len(files) |-> NewTask(files[i])]
  /\ pc' = "gather_files"
  /\ UNCHANGED << text, num_parts, text_parts, results, finished,
                  lecture_name, section_order, sections_dict, final_yaml,
                  error >>

\* gather starts its tasks in order, and each runs to its first await
\* before a reply is handled
AdjustStart(i) ==
  /\ pc = "gather_files"
  /\ tasks[i].st = "new"
  /\ \A j \in 1..(i - 1) : tasks[j].st # "new"
  /\ \E mode \in (IF HasCalls(tasks[i].doc) THEN SummarizeModes ELSE {"none"}) :
       tasks' = [tasks EXCEPT ![i] = StartTask(tasks[i], mode)]
  /\ UNCHANGED << text, num_parts, pc, text_parts, results, finished,
                  lecture_name, section_order, sections_dict, final_yaml,
                  error >>

Started == \A j \in 1..Len(tasks) : tasks[j].st # "new"

AdjustCall(i) ==
  /\ pc = "gather_files"
  /\ Started
  /\ tasks[i].st = "calls"
  /\ tasks' = [tasks EXCEPT ![i] = ReturnCall(tasks[i])]
  /\ UNCHANGED << text, num_parts, pc, text_parts, results, finished,
                  lecture_name, section_order, sections_dict, final_yaml,
                  error >>

AdjustResum(i) ==
  /\ pc = "gather_files"
  /\ Started
  /\ tasks[i].st = "resum"
  /\ \E outcome \in ResumOutcomes :
       tasks' = [tasks EXCEPT ![i] = ReturnResum(tasks[i], outcome)]
  /\ UNCHANGED << text, num_parts, pc, text_parts, results, finished,
                  lecture_name, section_order, sections_dict, final_yaml,
                  error >>

Raised(ts) == { i \in 1..Len(ts) : ts[i].st = "raised" }

TasksEnded(ts) == \A i \in 1..Len(ts) : ts[i].st \in {"done", "raised"}

\* the second gather returns; the error check; "return results"
FilesJoin ==
  /\ pc = "gather_files"
  /\ TasksEnded(tasks)
  /\ IF Raised(tasks) # {}
       THEN /\ pc' = "failed"
            /\ error' = [stage |-> "files",
                         count |-> Cardinality(Raised(tasks))]
            /\ final_yaml' = final_yaml
       ELSE /\ pc' = "done"
            /\ final_yaml' = [i \in 1..Len(tasks) |-> tasks[i].doc]
            /\ error' = error
  /\ UNCHANGED << text, num_parts, text_parts, results, finished,
                  lecture_name, section_order, sections_dict, tasks >>

Next ==
  \/ \E i \in 1..Len(results) : AnalyzeDone(i)
  \/ PartsJoin
  \/ Merge
  \/ Partition
  \/ \E i \in 1..Len(tasks) : AdjustStart(i)
  \/ \E i \in 1..Len(tasks) : AdjustCall(i)
  \/ \E i \in 1..Len(tasks) : AdjustResum(i)
  \/ FilesJoin

Spec == Init /\ [][Next]_vars

----------------------------------------------------------------------------
(* The merge alone, on the results of up to MaxOccurrences section         *)
(* occurrences spread over the chunks                                      *)

\* an occurrence: a section of n slides under a name, first of a new chunk
\* or not
Occurrences ==
  [name : 0..2, n : 0..2, newpart : BOOLEAN]

\* the shapes of the chunks the occurrences make up, in order
RECURSIVE PartShapes(_)
PartShapes(occ) ==
  IF occ = << >> THEN << >>
  ELSE LET rest == PartShapes(Tail(occ))
           sec == Sec(Head(occ).name, Head(occ).n, "small")
       IN  IF rest = << >> \/ occ[2].newpart
             THEN << << sec >> >> \o rest
             ELSE << << sec >> \o Head(rest) >> \o Tail(rest)

InitMerge ==
  /\ \E len \in 1..MaxOccurrences :
       \E occ \in [1..len -> Occurrences] :
         /\ occ[1].newpart
         /\ LET shapes == PartShapes(occ) IN
            /\ text_parts = [i \in 1..Len(shapes) |-> << i >>]
            /\ results = [i \in 1..Len(shapes) |->
                 [st |-> "ok", src |-> << i >>,
                  doc |-> LlmDoc(i, [lecture |-> 1, sections |-> shapes[i]])]]
  /\ pc = "merge"
  /\ finished = << >>
  /\ lecture_name = NoName
  /\ section_order = << >>
  /\ sections_dict = << >>
  /\ tasks = << >>
  /\ final_yaml = << >>
  /\ error = NoError
  /\ text = << >>
  /\ num_parts = NumParts

SpecMerge == InitMerge /\ [][Merge]_vars

----------------------------------------------------------------------------
(* The partition alone, on merged documents of up to MaxSections sections  *)

\* a merged slide as the merge leaves it
SmallSlide(name, j) ==
  MergeSlide(LlmSlide(1, name, j, "small"), j)

InitPartition ==
  /\ \E n \in 0..MaxSections, shift \in 0..2 :
       /\ section_order = [i \in 1..n |-> i]
       /\ sections_dict = [i \in 1..n |->
            [j \in 1..((i + shift) % 3) |-> SmallSlide(i, j)]]
  /\ pc = "partition"
  /\ lecture_name = 1
  /\ text_parts = << >>
  /\ results = << >>
  /\ finished = << >>
  /\ tasks = << >>
  /\ final_yaml = << >>
  /\ error = NoError
  /\ text = << >>
  /\ num_parts = NumParts

SpecPartition == InitPartition /\ [][Partition]_vars

----------------------------------------------------------------------------
(* adjust_yaml_size_async alone, on one partition                          *)

\* the numbers of slides of the sections of a partition
AdjustPatterns ==
  { << 1 >>, << 2 >>, << 0, 1 >>, << 12 >>, << 11, 11 >>, << 0 >> }

AdjustInput(pattern, kind) ==
  [lecture_name |-> 1,
   sections |-> [s \in 1..Len(pattern) |->
      [number |-> s, name |-> s,
       slides |-> [j \in 1..pattern[s] |->
                     MergeSlide(LlmSlide(1, s, j, kind), j)]]]]

InitAdjust ==
  /\ \E pattern \in AdjustPatterns, kind \in SlideKinds :
       tasks = << NewTask(AdjustInput(pattern, kind)) >>
  /\ pc = "gather_files"
  /\ lecture_name = 1
  /\ text_parts = << >>
  /\ results = << >>
  /\ finished = << >>
  /\ section_order = << >>
  /\ sections_dict = << >>
  /\ final_yaml = << >>
  /\ error = NoError
  /\ text = << >>
  /\ num_parts = NumParts

NextAdjust ==
  \/ \E i \in 1..Len(tasks) : AdjustStart(i)
  \/ \E i \in 1..Len(tasks) : AdjustCall(i)
  \/ \E i \in 1..Len(tasks) : AdjustResum(i)
  \/ FilesJoin

SpecAdjust == InitAdjust /\ [][NextAdjust]_vars

----------------------------------------------------------------------------
(* split_text alone, on the characters of a text                           *)

SplitTexts == UNION { [1..n -> Chars] : n \in 0..MaxTextLen }

InitSplit ==
  /\ text \in SplitTexts
  /\ num_parts \in 1..MaxNumParts
  /\ pc = "split"
  /\ text_parts = << >>
  /\ results = << >>
  /\ finished = << >>
  /\ lecture_name = NoName
  /\ section_order = << >>
  /\ sections_dict = << >>
  /\ tasks = << >>
  /\ final_yaml = << >>
  /\ error = NoError

\* text_parts = split_text(text, num_parts)
SplitText ==
  /\ pc = "split"
  /\ text_parts' = split_text_str(text, num_parts)
  /\ pc' = "split_done"
  /\ UNCHANGED << text, num_parts, results, finished, lecture_name,
                  section_order, sections_dict, tasks, final_yaml, error >>

SpecSplit == InitSplit /\ [][SplitText]_vars

----------------------------------------------------------------------------
(* Claims *)

FailedChunks == { i \in 1..Len(results) : results[i].st = "error" }

\* C1: once the first gather has returned with at least one failed chunk
\* analysis, analyze_content has failed with the aggregate error that counts
\* exactly the failed chunks, however many succeeded; nothing was merged, no
\* file task exists and no document is returned.
C1_AggregateFailure ==
  (pc # "gather_parts" /\ FailedChunks # {}) =>
    /\ pc = "failed"
    /\ error = [stage |-> "parts", count |-> Cardinality(FailedChunks)]
    /\ lecture_name = NoName
    /\ section_order = << >>
    /\ sections_dict = << >>
    /\ tasks = << >>
    /\ final_yaml = << >>

\* one chunk failed, another succeeded, and the pipeline failed counting one
C1_Witness ==
  /\ pc = "failed"
  /\ error = [stage |-> "parts", count |-> 1]
  /\ \E i \in 1..Len(results) : results[i].st = "ok"

\* C2: whatever the order in which the chunk analyses end, the result at
\* position i is the one produced from chunk i, while the gather runs and
\* when its results are handed to the merge.
C2_OrderPreserved ==
  /\ \A i \in 1..Len(results) :
       results[i] # Pending => results[i].src = text_parts[i]
  /\ pc = "merge" =>
       \A i \in 1..Len(results) :
         results[i].st = "ok" /\ results[i].src = text_parts[i]

\* the second chunk ended before the first and the results reach the merge
C2_Witness ==
  /\ pc = "merge"
  /\ Len(finished) >= 2
  /\ finished[1] = 2
  /\ finished[2] = 1

\* the section names of the files, file after file
RECURSIVE FileNamesConcat(_)
FileNamesConcat(ts) ==
  IF ts = << >> THEN << >>
  ELSE [k \in 1..Len(Head(ts).input.sections) |->
          Head(ts).input.sections[k].name]
         \o FileNamesConcat(Tail(ts))

\* max(1, floor(n / 8)), written out
PerPart(n) == IF n < 16 THEN 1 ELSE n \div 8

\* C3: after the partition of a merged document of n >= 1 sections, the
\* sections of the files, file after file, are exactly the sections of the
\* merged document in first-seen order, each with the slides merged under
\* its name; every file but the last of eight holds max(1, floor(n/8))
\* sections, and the eighth holds all sections beyond 7 * max(1, floor(n/8)).
C3_PartitionCoverage ==
  (pc = "gather_files" /\ Len(section_order) >= 1) =>
    LET n == Len(section_order) IN
    /\ FileNamesConcat(tasks) = section_order
    /\ \A i \in 1..Len(tasks) :
         /\ tasks[i].input.sections # << >>
         /\ tasks[i].input.lecture_name = lecture_name
         /\ \A k \in 1..Len(tasks[i].input.sections) :
              LET sec == tasks[i].input.sections[k] IN
              /\ sec.number = k
              /\ sec.slides = sections_dict[sec.name]
         /\ i < 8 => Len(tasks[i].input.sections) = PerPart(n)
    /\ Len(tasks) <= 8
    /\ n > 7 * PerPart(n) =>
         /\ Len(tasks) = 8
         /\ Len(tasks[8].input.sections) = n - 7 * PerPart(n)

\* 17 sections: seven files of two sections and an eighth of three
C3_Witness ==
  /\ pc = "gather_files"
  /\ Len(section_order) = 17
  /\ Len(tasks) = 8
  /\ Len(tasks[8].input.sections) = 3

\* the sections of the chunk results in chunk order
RECURSIVE AllSections(_)
AllSections(res) ==
  IF res = << >> THEN << >>
  ELSE Head(res).doc.sections \o AllSections(Tail(res))

\* the titles of the slides of the occurrences of a name, in order
RECURSIVE TitlesOf(_, _)
TitlesOf(occ, name) ==
  IF occ = << >> THEN << >>
  ELSE (IF Head(occ).name = name
          THEN [j \in 1..Len(Head(occ).slides) |-> Head(occ).slides[j].title]
          ELSE << >>)
         \o TitlesOf(Tail(occ), name)

FirstAt(occ, name) ==
  CHOOSE i \in 1..Len(occ) :
    occ[i].name = name /\ \A j \in 1..(i - 1) : occ[j].name # name

\* C4: the merge yields one section per distinct section name of the chunk
\* results (a section without a name has none), in the order in which the
\* names first occur, and the slides of a section are those of all
\* occurrences of its name, concatenated in chunk order.
C4_MergeByName ==
  pc = "partition" =>
    LET occ == AllSections(results)
        names == { occ[i].name : i \in 1..Len(occ) } \ {NoName}
    IN  /\ { section_order[i] : i \in 1..Len(section_order) } = names
        /\ Len(section_order) = Cardinality(names)
        /\ \A i, j \in 1..Len(section_order) :
             i < j => FirstAt(occ, section_order[i])
                        < FirstAt(occ, section_order[j])
        /\ DOMAIN sections_dict = names
        /\ \A name \in names :
             [k \in 1..Len(sections_dict[name]) |->
                sections_dict[name][k].title] = TitlesOf(occ, name)

\* the occurrences Intro, Intro, Body, each with slides
C4_Witness ==
  /\ pc = "partition"
  /\ LET occ == AllSections(results) IN
     /\ Len(occ) = 3
     /\ occ[1].name = 1 /\ occ[2].name = 1 /\ occ[3].name = 2
     /\ \A i \in 1..3 : Len(occ[i].slides) = 2
  /\ section_order = << 1, 2 >>
  /\ Len(sections_dict[1]) = 4
  /\ Len(sections_dict[2]) = 2

\* C5 (as claimed): after the merge the k-th slide of every section has
\* number k, also when several occurrences contributed the slides.
C5_ContiguousNumbers ==
  pc = "partition" =>
    \A name \in DOMAIN sections_dict :
      \A k \in 1..Len(sections_dict[name]) :
        sections_dict[name][k].number = k

\* C6 (as claimed): every document the Size Adjuster returns, and every
\* document of the set the pipeline returns, has a serialized size of at
\* most max_chars.
C6_SizeBounded ==
  /\ \A i \in 1..Len(tasks) :
       tasks[i].st = "done" => DumpLen(tasks[i].doc) <= MaxChars
  /\ \A i \in 1..Len(final_yaml) : DumpLen(final_yaml[i]) <= MaxChars

\* C6 (amended): a document returned through the unchanged branch has a
\* serialized size of at least 8000 and at most max_chars; a returned
\* document larger than max_chars went through the expansion or the
\* compression branch.
C6_UnchangedWithinBound ==
  \A i \in 1..Len(tasks) :
    tasks[i].st = "done" =>
      /\ tasks[i].branch = "keep" =>
           /\ DumpLen(tasks[i].doc) >= ExpandBelow
           /\ DumpLen(tasks[i].doc) <= MaxChars
      /\ DumpLen(tasks[i].doc) > MaxChars =>
           tasks[i].branch \in {"expand", "compress"}

\* a document returned through the unchanged branch, and returned by the
\* gather
C6_Witness ==
  /\ pc = "done"
  /\ \E i \in 1..Len(tasks) :
       /\ tasks[i].branch = "keep"
       /\ final_yaml[i] = tasks[i].doc
       /\ DumpLen(final_yaml[i]) <= MaxChars

C8_ExactlyTenSlides ==
  \A i \in 1..Len(tasks) :
    \A r \in tasks[i].resummed :
      LET slides == tasks[i].doc.sections[r.s].slides IN
      /\ Len(slides) = MaxSlidesPerSection
      /\ \A k \in 1..Len(slides) : slides[k].number = k

\* C9 (as claimed): when the reply to the resummarization is a string that
\* does not parse, the section holds one placeholder for each of the first
\* 10 slides it had, placeholder k with number k, the title of slide k and
\* empty content, and the task does not raise.
C9_PlaceholderTitles ==
  \A i \in 1..Len(tasks) :
    /\ tasks[i].resummed # {} => tasks[i].st # "raised"
    /\ \A r \in tasks[i].resummed :
         (r.outcome.shape = "error" /\ ~ r.outcome.failed) =>
           LET slides == tasks[i].doc.sections[r.s].slides IN
           /\ Len(slides) = MaxSlidesPerSection
           /\ \A k \in 1..Len(slides) :
                /\ slides[k].number = k
                /\ slides[k].title = r.before[k].title
                /\ slides[k].content = NoContent

\* C10 (as claimed): the returned document has the lecture_name of the
\* input, and every section that had a slide before still has one.
C10_KeepsNameAndSlides ==
  \A i \in 1..Len(tasks) :
    tasks[i].st = "done" =>
      /\ tasks[i].doc.lecture_name = tasks[i].input.lecture_name
      /\ Len(tasks[i].doc.sections) = Len(tasks[i].input.sections)
      /\ \A s \in 1..Len(tasks[i].input.sections) :
           tasks[i].input.sections[s].slides # << >> =>
             tasks[i].doc.sections[s].slides # << >>

\* C11: a document whose measured size is at least 8000 and at most
\* max_chars is returned as it was passed in: same lecture_name, same
\* sections, every slide with the number, title, content and
\* teaching_points of the input, and without any LLM call.
C11_UnchangedBand ==
  \A i \in 1..Len(tasks) :
    (/\ tasks[i].st \in {"calls", "resum", "done", "raised"}
     /\ DumpLen(tasks[i].input) >= ExpandBelow
     /\ DumpLen(tasks[i].input) <= MaxChars) =>
      /\ tasks[i].st = "done"
      /\ tasks[i].doc = tasks[i].input
      /\ tasks[i].calls = << >>
      /\ tasks[i].acc = << >>
      /\ tasks[i].resummed = {}
      /\ ~ tasks[i].failed_call

\* a document with slides, measured at exactly max_chars, has been returned
C11_Witness ==
  \E i \in 1..Len(tasks) :
    /\ tasks[i].st = "done"
    /\ DumpLen(tasks[i].input) = MaxChars
    /\ tasks[i].doc = tasks[i].input
    /\ \E s \in 1..Len(tasks[i].doc.sections) :
         tasks[i].doc.sections[s].slides # << >>

\* the paragraphs of a string: the pieces between blank lines that do not
\* strip to nothing
ParagraphsOf(str) ==
  SelectSeq(SplitBlankLines(str), LAMBDA p : ~ StripsToEmpty(p))

RECURSIVE ConcatAll(_)
ConcatAll(seqs) ==
  IF seqs = << >> THEN << >> ELSE Head(seqs) \o ConcatAll(Tail(seqs))

\* C12: for every text and every num_parts >= 1 the chunks of split_text
\* are non-empty groups of paragraphs that, chunk after chunk, give the
\* non-blank paragraphs of the text in order; joining the chunks with blank
\* lines and splitting on blank lines gives exactly these paragraphs (when
\* there is no chunk, the joined text is empty and holds no paragraph).
C12_SplitRoundTrip ==
  pc = "split_done" =>
    LET paragraphs == ParagraphsOf(text)
        joined == JoinBlankLines(text_parts)
    IN  /\ \A j \in 1..Len(text_parts) : ParagraphsOf(text_parts[j]) # << >>
        /\ \A j \in 1..Len(text_parts) :
             SplitBlankLines(text_parts[j]) = ParagraphsOf(text_parts[j])
        /\ ConcatAll([j \in 1..Len(text_parts) |->
                        SplitBlankLines(text_parts[j])]) = paragraphs
        /\ ParagraphsOf(joined) = paragraphs
        /\ text_parts # << >> => SplitBlankLines(joined) = paragraphs
        /\ text_parts = << >> => paragraphs = << >>

\* three paragraphs split in two parts, the first part holding two
C12_Witness ==
  /\ pc = "split_done"
  /\ num_parts = 2
  /\ Len(ParagraphsOf(text)) = 3
  /\ Len(text_parts) = 2
  /\ Len(SplitBlankLines(text_parts[1])) = 2

\* C13: each gather is a barrier.  analyze_content leaves the first gather
\* (to merge or to fail) only when every chunk analysis has ended, each
\* with its own result or exception; a size-adjust task exists, and so an
\* LLM call of the Size Adjuster is issued, only when every chunk analysis
\* has ended without error; analyze_content returns the set or fails in the
\* second gather only when every size-adjust task has returned or raised.
C13_JoinAllBarrier ==
  /\ pc # "gather_parts" => AllEnded(results)
  /\ error.stage = "parts" =>
       /\ Len(finished) = Len(results)
       /\ \A i \in 1..Len(results) : \E k \in 1..Len(finished) : finished[k] = i
  /\ tasks # << >> =>
       /\ \A i \in 1..Len(results) : results[i] # Pending
       /\ \A i \in 1..Len(results) : results[i].st = "ok"
  /\ pc = "done" =>
       /\ \A i \in 1..Len(tasks) : tasks[i].st = "done"
       /\ Len(final_yaml) = Len(tasks)
  /\ (pc = "failed" /\ error.stage = "files") =>
       \A i \in 1..Len(tasks) : tasks[i].st \in {"done", "raised"}
  /\ pc = "gather_files" => final_yaml = << >> /\ error = NoError

\* the first chunk analysis failed, the second ended with its result after
\* that, and only then did the pipeline fail
C13_Witness ==
  /\ pc = "failed"
  /\ error = [stage |-> "parts", count |-> 1]
  /\ finished = << 1, 2 >>
  /\ results[1].st = "error"
  /\ results[2].st = "ok"

\* The objects a size-adjust task holds.  The slide dicts are made by the
\* merge, one for each position of each list sections_dict[name]; a file's
\* section refers to the list sections_dict[name], so a slide dict is known
\* by << name, position >> and a slide list by its name.
SlideObjects(i) ==
  UNION { { << tasks[i].input.sections[s].name, j >> :
              j \in 1..Len(tasks[i].input.sections[s].slides) } :
          s \in 1..Len(tasks[i].input.sections) }

ListObjects(i) ==
  { tasks[i].input.sections[s].name : s \in 1..Len(tasks[i].input.sections) }

\* the slide dicts task i has assigned to so far: in the expansion at the
\* return of each call, in the compression when the results are applied
Written(i) ==
  LET t == tasks[i]
      upto == IF t.branch = "expand"
                THEN (IF t.st = "calls" THEN t.k - 1
                      ELSE IF t.st = "done" THEN Len(t.calls) ELSE 0)
              ELSE IF t.branch = "compress" /\ t.st \in {"resum", "done"}
                THEN Len(t.calls)
              ELSE 0
  IN  { << t.input.sections[t.calls[c].s].name, t.calls[c].j >> :
          c \in 1..upto }

\* a task run alone on its input with the replies it got
RECURSIVE RunCalls(_)
RunCalls(t) == IF t.st = "calls" THEN RunCalls(ReturnCall(t)) ELSE t

RECURSIVE RunResums(_, _)
RunResums(t, replies) ==
  IF t.st = "resum" /\ \E r \in replies : r.s = t.rs[t.k]
    THEN RunResums(
           ReturnResum(t, (CHOOSE r \in replies : r.s = t.rs[t.k]).outcome),
           replies)
    ELSE t

RunAlone(t) ==
  RunResums(RunCalls(StartTask(NewTask(t.input), t.mode)), t.resummed)

\* C14: while the size-adjust tasks interleave, the slide dicts and slide
\* lists of two tasks are disjoint, every file section refers to the list
\* merged under its name, so no slide a task assigns to is read or written
\* by another task; each task ends as it would when run alone with the same
\* replies, and the set returned holds these documents.
C14_TasksShareNothing ==
  /\ \A i, j \in 1..Len(tasks) :
       i # j =>
         /\ SlideObjects(i) \cap SlideObjects(j) = {}
         /\ ListObjects(i) \cap ListObjects(j) = {}
         /\ Written(i) \cap SlideObjects(j) = {}
  /\ \A i \in 1..Len(tasks) :
       /\ Written(i) \subseteq SlideObjects(i)
       /\ \A s \in 1..Len(tasks[i].input.sections) :
            tasks[i].input.sections[s].slides
              = sections_dict[tasks[i].input.sections[s].name]
       /\ tasks[i].st \in {"done", "raised"} => tasks[i] = RunAlone(tasks[i])
  /\ pc = "done" =>
       \A i \in 1..Len(tasks) : final_yaml[i] = RunAlone(tasks[i]).doc

\* two tasks are suspended at LLM calls after calls of both have returned,
\* and one of them has assigned to a slide
C14_Witness ==
  /\ pc = "gather_files"
  /\ \E i, j \in 1..Len(tasks) :
       /\ i # j
       /\ tasks[i].st = "calls" /\ tasks[i].k > 1
       /\ tasks[j].st = "calls" /\ tasks[j].k > 1
       /\ Written(i) # {}

\* the per-slide compression pass of task i has just applied its results:
\* no resummarization reply has been handled
AfterCompressPass(i) ==
  /\ tasks[i].branch = "compress"
  /\ tasks[i].resummed = {}
  /\ \/ tasks[i].st = "done"
     \/ tasks[i].st = "resum" /\ tasks[i].k = 1

\* the slides of task i whose content held more than 5 items before the pass
LongSlides(i) ==
  { sj \in (1..Len(tasks[i].input.sections)) \X (1..MaxSlidesPerSection + 2) :
      /\ sj[2] <= Len(tasks[i].input.sections[sj[1]].slides)
      /\ LET c == tasks[i].input.sections[sj[1]].slides[sj[2]].content
         IN  c.k = "list" /\ Len(c.v) > MaxContentItems }

\* the non-blank lines of the reply to the content_limit call of a slide
LimitReplyLines(i, sj) ==
  LET hits == SelectSeq(tasks[i].acc,
                LAMBDA a : a.f = "content_limit" /\ a.s = sj[1] /\ a.j = sj[2])
  IN  IF hits = << >> THEN << >> ELSE SplitStrip(hits[1].result)

\* C15 (as claimed): after the per-slide compression pass every slide whose
\* content held more than 5 items holds exactly 5, for every LLM reply
\* (every call of the task was answered).
C15_ExactlyFiveItems ==
  \A i \in 1..Len(tasks) :
    (AfterCompressPass(i) /\ ~ tasks[i].failed_call) =>
      \A sj \in LongSlides(i) :
        LET c == tasks[i].doc.sections[sj[1]].slides[sj[2]].content
        IN  c.k = "list" /\ Len(c.v) = MaxContentItems

\* C15 (amended): after the per-slide compression pass every slide whose
\* content held more than 5 items holds the first 5 non-blank lines of the
\* reply to its content_limit call: at most 5 items, exactly 5 when the
\* reply has at least 5 non-blank lines, and fewer when it has fewer.
C15_AtMostFiveItems ==
  \A i \in 1..Len(tasks) :
    AfterCompressPass(i) =>
      \A sj \in LongSlides(i) :
        LET c == tasks[i].doc.sections[sj[1]].slides[sj[2]].content
            lines == LimitReplyLines(i, sj)
        IN  /\ c.k = "list"
            /\ Len(c.v) <= MaxContentItems
            /\ Len(lines) >= MaxContentItems => Len(c.v) = MaxContentItems
            /\ Len(lines) < MaxContentItems => c.v = lines

\* a slide of 6 items whose content_limit reply had 7 lines holds 5 items
\* after the pass
C15_Witness ==
  \E i \in 1..Len(tasks) :
    /\ AfterCompressPass(i)
    /\ \E sj \in LongSlides(i) :
         /\ Len(LimitReplyLines(i, sj)) = 7
         /\ Len(tasks[i].doc.sections[sj[1]].slides[sj[2]].content.v)
              = MaxContentItems

====
